---------------------------- MODULE Spec2Model ----------------------------
(***************************************************************************)
(* Model of the /download handler of ytm_rs_backend (__main__.py).         *)
(*                                                                         *)
(* Every request is served by its own handler thread (Flask's development  *)
(* server is threaded), so the handlers of different jobs interleave at    *)
(* statement granularity.  Python objects that are mutable and can be      *)
(* aliased (the option dicts, the postprocessor lists and the step dicts)  *)
(* live in three heaps addressed by object identity, so that sharing and   *)
(* copying are observable.                                                 *)
(***************************************************************************)
EXTENDS Integers, Sequences, FiniteSets, TLC

\* ------------------------------------------------------------------ bounds
NumJobs == 2          \* concurrent /download requests
MaxProgress == 1      \* progress notifications the engines emit in total

Jobs == 1..NumJobs

VARIABLES
    pc,           \* position of each handler thread
    json,         \* request.json of each request
    postprocessor,\* local `postprocessor` (None or an entry of the table)
    opts_,        \* local `opts_`: reference to an options dict
    optsHeap,     \* options dicts by identity
    listHeap,     \* "postprocessors" lists by identity
    dictHeap,     \* postprocessor step dicts by identity
    ytdl,         \* options reference the engine instance was built with
    engine,       \* state of the engine call of each job
    emitted,      \* progress notifications produced by the engine
    info,         \* local `info`
    exc,          \* exception in flight
    response,     \* events the client observes for the job
    http          \* HTTP status of the response (0: not answered yet)

vars == <<pc, json, postprocessor, opts_, optsHeap, listHeap, dictHeap,
          ytdl, engine, emitted, info, exc, response, http>>

\* ------------------------------------------------------------ Python values
None == <<>>
NoRef == -1
NoKey == "<absent>"

\* object identities
OptsId == 0                     \* the module-level dict `opts`
OptsListId == 0                 \* opts["postprocessors"]
ExtractAudioId == 1             \* first base step
ConcatId == 2                   \* second base step
JobDictId(j, i) == 10 * j + i   \* i-th step dict allocated for job j

FormatKeys == {"vorbis", "aac", "flac", "mp3", "wav"}

TableStepId(k) ==
    CASE k = "vorbis" -> 3
      [] k = "aac"    -> 4
      [] k = "flac"   -> 5
      [] k = "mp3"    -> 6
      [] k = "wav"    -> 7

TargetExt(k) == IF k = "vorbis" THEN "ogg" ELSE k

\* FORMAT_POSTPROCESSORS[k] is the tuple (extension, step dict).  Python's
\* postprocessor[0] is index 1 here and postprocessor[1] is index 2; the
\* step is held by reference.
FORMAT_POSTPROCESSORS == [k \in FormatKeys |-> <<TargetExt(k), TableStepId(k)>>]

ConvertorStep(k) == [key |-> "FFmpegVideoConvertor", preferedformat |-> k]

ExtractAudioStep ==
    [key |-> "FFmpegExtractAudio", nopostoverwrites |-> FALSE,
     preferredcodec |-> "best", preferredquality |-> "5"]

ConcatStep == [key |-> "FFmpegConcat", only_multi_video |-> TRUE, when |-> "playlist"]

opts ==
    [extract_flat |-> "discard_in_playlist", format |-> "bestaudio/best",
     fragment_retries |-> 10, ignoreerrors |-> "only_download",
     outtmpl |-> ".tmp_%(id)s.%(ext)s", postprocessors |-> OptsListId,
     retries |-> 10, final_ext |-> NoKey]

InitDictHeap ==
    [d \in 1..7 |->
        IF d = ExtractAudioId THEN ExtractAudioStep
        ELSE IF d = ConcatId THEN ConcatStep
        ELSE ConvertorStep(CHOOSE k \in FormatKeys : TableStepId(k) = d)]

InitListHeap == (OptsListId :> <<ExtractAudioId, ConcatId>>)

InitOptsHeap == (OptsId :> opts)

\* ---------------------------------------------------------------- requests
\* request.json: None (body `null`) or a dict with a subset of the keys.
NoJson == [none |-> TRUE, keys |-> {}, convert_to |-> ""]

\* The request bodies the handlers are given: a body that is not a dict, a
\* url with convert_to absent, with a key whose extension differs from its
\* name and with an unrecognized token, and a body without url that asks
\* for a key whose extension is its name.
Requests ==
    {NoJson}
    \cup {[none |-> FALSE, keys |-> {"url"}, convert_to |-> ""]}
    \cup {[none |-> FALSE, keys |-> {"url", "convert_to"}, convert_to |-> c] :
             c \in {"vorbis", "xyz"}}
    \cup {[none |-> FALSE, keys |-> {"convert_to"}, convert_to |-> "mp3"]}

\* ------------------------------------------------------------------ engine
NoInfo == [none |-> TRUE, keys |-> {}]

\* what extract_info can return: None, or an info dict with or without the
\* "heatmap" key
EngineResults ==
    {NoInfo} \cup {[none |-> FALSE, keys |-> ks] : ks \in {{"id"}, {"id", "heatmap"}}}

NoExc == [type |-> "", arg |-> ""]

\* failures extract_info can raise
EngineErrors == {[type |-> "DownloadError", arg |-> "ERROR: video unavailable"]}

\* str(e): the message for ordinary exceptions, the repr of the key for a
\* KeyError
str(e) == IF e.type = "KeyError" THEN "'" \o e.arg \o "'" ELSE e.arg

\* ------------------------------------------------------------------ events
Status(n) == [kind |-> "Status", info |-> NoInfo, text |-> "", n |-> n]
Result(i) == [kind |-> "Result", info |-> i, text |-> "", n |-> 0]
Error(t)  == [kind |-> "Error", info |-> NoInfo, text |-> t, n |-> 0]

\* ------------------------------------------------------------------- Init
Init ==
    /\ pc = [j \in Jobs |-> "idle"]
    /\ json = [j \in Jobs |-> NoJson]
    /\ postprocessor = [j \in Jobs |-> None]
    /\ opts_ = [j \in Jobs |-> NoRef]
    /\ optsHeap = InitOptsHeap
    /\ listHeap = InitListHeap
    /\ dictHeap = InitDictHeap
    /\ ytdl = [j \in Jobs |-> NoRef]
    /\ engine = [j \in Jobs |-> "none"]
    /\ emitted = [j \in Jobs |-> <<>>]
    /\ info = [j \in Jobs |-> NoInfo]
    /\ exc = [j \in Jobs |-> NoExc]
    /\ response = [j \in Jobs |-> <<>>]
    /\ http = [j \in Jobs |-> 0]

\* ---------------------------------------------------------------- actions
select_default(js) ==
    IF "convert_to" \in js.keys
    THEN IF js.convert_to \in DOMAIN FORMAT_POSTPROCESSORS
         THEN FORMAT_POSTPROCESSORS[js.convert_to]
         ELSE FORMAT_POSTPROCESSORS["mp3"]
    ELSE None

\* lines 161-164 for a dict body
select(js) ==
    IF "convert_to" \in js.keys /\ js.convert_to \in DOMAIN FORMAT_POSTPROCESSORS
    THEN FORMAT_POSTPROCESSORS[js.convert_to]
    ELSE None

\* lines 160-164: json = request.json and the choice of the postprocessor.
\* These lines are outside the try block, so `"convert_to" in None` is an
\* unhandled TypeError (HTTP 500).
Receive(j) ==
    /\ pc[j] = "idle"
    /\ \E r \in Requests :
         /\ json' = [json EXCEPT ![j] = r]
         /\ IF r.none
            THEN /\ pc' = [pc EXCEPT ![j] = "unhandled"]
                 /\ http' = [http EXCEPT ![j] = 500]
                 /\ UNCHANGED postprocessor
            ELSE /\ postprocessor' = [postprocessor EXCEPT ![j] = select(r)]
                 /\ pc' = [pc EXCEPT ![j] = "copy"]
                 /\ UNCHANGED http
    /\ UNCHANGED <<opts_, optsHeap, listHeap, dictHeap, ytdl, engine,
                   emitted, info, exc, response>>

Heap == [o |-> optsHeap, l |-> listHeap, d |-> dictHeap]

\* opts.copy(): a new top-level dict that shares the postprocessor list
shallow_copy(j, H, ref) ==
    [ref |-> j, o |-> (j :> H.o[ref]) @@ H.o, l |-> H.l, d |-> H.d]

\* deepcopy(opts): a new dict, a new list and a new dict per step
deepcopy(j, H, ref) ==
    LET src == H.l[H.o[ref].postprocessors]
    IN [ref |-> j,
        o |-> (j :> [H.o[ref] EXCEPT !.postprocessors = j]) @@ H.o,
        l |-> (j :> [i \in 1..Len(src) |-> JobDictId(j, i)]) @@ H.l,
        d |-> [i \in {JobDictId(j, k) : k \in 1..Len(src)} |->
                  H.d[src[i - 10 * j]]] @@ H.d]

\* line 167: opts_ = deepcopy(opts)
Copy(j) ==
    /\ pc[j] = "copy"
    /\ LET c == deepcopy(j, Heap, OptsId)
       IN /\ opts_' = [opts_ EXCEPT ![j] = c.ref]
          /\ optsHeap' = c.o
          /\ listHeap' = c.l
          /\ dictHeap' = c.d
    /\ pc' = [pc EXCEPT ![j] = "build"]
    /\ UNCHANGED <<json, postprocessor, ytdl, engine, emitted, info, exc,
                   response, http>>

list_append(s, x) == Append(s, x)

\* list.insert(0, x)
list_insert0(s, x) == <<x>> \o s

\* lines 168-172: the postprocessor is put in front of the job's chain,
\* final_ext is set, and the engine is constructed on opts_
Build(j) ==
    /\ pc[j] = "build"
    /\ IF postprocessor[j] # None
       THEN LET lid == optsHeap[opts_[j]].postprocessors
            IN /\ listHeap' = [listHeap EXCEPT
                                 ![lid] = list_insert0(@, postprocessor[j][2])]
               /\ optsHeap' = [optsHeap EXCEPT
                                 ![opts_[j]].final_ext = postprocessor[j][1]]
       ELSE UNCHANGED <<listHeap, optsHeap>>
    /\ ytdl' = [ytdl EXCEPT ![j] = opts_[j]]
    /\ engine' = [engine EXCEPT ![j] = "constructed"]
    /\ pc' = [pc EXCEPT ![j] = "call"]
    /\ UNCHANGED <<json, postprocessor, opts_, dictHeap, emitted, info, exc,
                   response, http>>

\* a handler that lets the exception escape
Except_reraise(j, e) ==
    /\ exc' = [exc EXCEPT ![j] = e]
    /\ http' = [http EXCEPT ![j] = 500]
    /\ pc' = [pc EXCEPT ![j] = "unhandled"]
    /\ UNCHANGED response

\* lines 185-186: except Exception as e: return str(e)
Except(j, e) ==
    /\ exc' = [exc EXCEPT ![j] = e]
    /\ response' = [response EXCEPT ![j] = Append(@, Error(str(e)))]
    /\ http' = [http EXCEPT ![j] = 200]
    /\ pc' = [pc EXCEPT ![j] = "done"]

\* json.get("url", ""): never raises
getitem_default(js, k) == [ok |-> TRUE, exc |-> NoExc]

\* json[k]: KeyError(k) when the key is missing
getitem(js, k) ==
    IF k \in js.keys THEN [ok |-> TRUE, exc |-> NoExc]
    ELSE [ok |-> FALSE, exc |-> [type |-> "KeyError", arg |-> k]]

\* a handler that starts the engine and answers at once
Call_async(j) ==
    /\ pc[j] = "call"
    /\ engine' = [engine EXCEPT ![j] = "running"]
    /\ pc' = [pc EXCEPT ![j] = "done"]
    /\ http' = [http EXCEPT ![j] = 200]
    /\ UNCHANGED <<json, postprocessor, opts_, optsHeap, listHeap, dictHeap,
                   ytdl, emitted, info, exc, response>>

\* lines 173-176: the argument json["url"] is evaluated, then extract_info
\* is called in the handler's own thread and the handler waits in the call;
\* a missing key is a KeyError inside the try block
Call(j) ==
    /\ pc[j] = "call"
    /\ LET u == getitem(json[j], "url")
       IN IF u.ok
          THEN /\ engine' = [engine EXCEPT ![j] = "running"]
               /\ pc' = [pc EXCEPT ![j] = "extracting"]
               /\ UNCHANGED <<exc, response, http>>
          ELSE /\ Except(j, u.exc)
               /\ UNCHANGED engine
    /\ UNCHANGED <<json, postprocessor, opts_, optsHeap, listHeap, dictHeap,
                   ytdl, emitted, info>>

\* a hook that forwards every notification to the client
progress_hooks_stream(o) == <<"add_p2q">>

\* opts_["progress_hooks"]: the key is never set (lines 15-33, 167-170)
progress_hooks(o) == <<>>

RECURSIVE TotalEmitted(_)
TotalEmitted(n) == IF n = 0 THEN 0 ELSE Len(emitted[n]) + TotalEmitted(n - 1)

\* the engine reports progress to every registered hook
EngineProgress(j) ==
    /\ engine[j] = "running"
    /\ TotalEmitted(NumJobs) < MaxProgress
    /\ LET n == Len(emitted[j]) + 1
       IN /\ emitted' = [emitted EXCEPT ![j] = Append(@, n)]
          /\ response' = [response EXCEPT ![j] =
                 @ \o [i \in 1..Len(progress_hooks(optsHeap[ytdl[j]])) |-> Status(n)]]
    /\ UNCHANGED <<pc, json, postprocessor, opts_, optsHeap, listHeap, dictHeap,
                   ytdl, engine, info, exc, http>>

\* extract_info returns
EngineReturn(j) ==
    /\ engine[j] = "running"
    /\ pc[j] = "extracting"
    /\ \E r \in EngineResults : info' = [info EXCEPT ![j] = r]
    /\ engine' = [engine EXCEPT ![j] = "returned"]
    /\ pc' = [pc EXCEPT ![j] = "post"]
    /\ UNCHANGED <<json, postprocessor, opts_, optsHeap, listHeap, dictHeap,
                   ytdl, emitted, exc, response, http>>

\* extract_info raises; the except clause of the handler answers
EngineRaise(j) ==
    /\ engine[j] = "running"
    /\ pc[j] = "extracting"
    /\ engine' = [engine EXCEPT ![j] = "raised"]
    /\ \E e \in EngineErrors : Except(j, e)
    /\ UNCHANGED <<json, postprocessor, opts_, optsHeap, listHeap, dictHeap,
                   ytdl, emitted, info>>

\* a handler that answers without a body
Return_none(j) ==
    /\ http' = [http EXCEPT ![j] = 200]
    /\ pc' = [pc EXCEPT ![j] = "done"]
    /\ UNCHANGED <<exc, response>>

\* line 183: return info
Return(j) ==
    /\ response' = [response EXCEPT ![j] = Append(@, Result(info'[j]))]
    /\ http' = [http EXCEPT ![j] = 200]
    /\ pc' = [pc EXCEPT ![j] = "done"]
    /\ UNCHANGED exc

\* lines 177-186: `"heatmap" in info` is a TypeError when info is None;
\* otherwise the key is dropped and the temp file is written, where open()
\* succeeds or raises OSError; then info is returned.  All of it is inside
\* the try block.
Post(j) ==
    /\ pc[j] = "post"
    /\ IF info[j].none
       THEN /\ Except(j, [type |-> "TypeError",
                          arg |-> "argument of type 'NoneType' is not iterable"])
            /\ UNCHANGED info
       ELSE /\ info' = [info EXCEPT ![j].keys = @ \ {"heatmap"}]
            /\ \/ Return(j)
               \/ Except(j, [type |-> "OSError",
                             arg |-> "[Errno 13] Permission denied: 'tmp_download.json'"])
    /\ UNCHANGED <<json, postprocessor, opts_, optsHeap, listHeap, dictHeap,
                   ytdl, engine, emitted>>

Next ==
    \E j \in Jobs :
        \/ Receive(j)
        \/ Copy(j)
        \/ Build(j)
        \/ Call(j)
        \/ EngineProgress(j)
        \/ EngineReturn(j)
        \/ EngineRaise(j)
        \/ Post(j)

Spec == Init /\ [][Next]_vars


\* ------------------------------------------------------- derived notions
HasUrl(j) == ~json[j].none /\ "url" \in json[j].keys
NoUrl(j) == pc[j] # "idle" /\ ~json[j].none /\ "url" \notin json[j].keys
Recognized(j) ==
    /\ ~json[j].none
    /\ "convert_to" \in json[j].keys
    /\ json[j].convert_to \in FormatKeys
Unrecognized(j) == pc[j] # "idle" /\ ~json[j].none /\ ~Recognized(j)

\* identities of the steps of an options dict, and the steps themselves
ChainIds(ref) == listHeap[optsHeap[ref].postprocessors]
ChainSteps(ref) == [i \in 1..Len(ChainIds(ref)) |-> dictHeap[ChainIds(ref)[i]]]
IdSet(ref) == {ChainIds(ref)[i] : i \in 1..Len(ChainIds(ref))}

BaseChain == <<ExtractAudioStep, ConcatStep>>
TableIds == {FORMAT_POSTPROCESSORS[k][2] : k \in FormatKeys}

IsTerminal(e) == e.kind \in {"Result", "Error"}
Terminals(j) == SelectSeq(response[j], IsTerminal)
IsStatus(e) == e.kind = "Status"
Statuses(j) == SelectSeq(response[j], IsStatus)
Answered(j) == pc[j] = "done"

\* ----------------------------------------------------------------- claims

\* C1: for a request with a url, the events the client has received when
\* the response ends are zero or more Status events followed by exactly one
\* Result or Error; before the end there is no terminal event, and the
\* request never ends without one.
C1_OneTerminalEvent ==
    \A j \in Jobs :
        HasUrl(j) =>
            /\ pc[j] # "unhandled"
            /\ Answered(j) =>
                  /\ Len(response[j]) >= 1
                  /\ IsTerminal(response[j][Len(response[j])])
                  /\ \A i \in 1..(Len(response[j]) - 1) : IsStatus(response[j][i])
            /\ ~Answered(j) => Terminals(j) = <<>>

C1_Witness ==
    \E j, k \in Jobs :
        /\ HasUrl(j) /\ Answered(j) /\ response[j][Len(response[j])].kind = "Result"
        /\ HasUrl(k) /\ Answered(k) /\ response[k][Len(response[k])].kind = "Error"

\* C2: when convert_to is a key of FORMAT_POSTPROCESSORS, the options the
\* engine is constructed with have the table entry's step first, then the
\* base steps in their order, and final_ext is the entry's extension.
C2_RecognizedChain ==
    \A j \in Jobs :
        (Recognized(j) /\ ytdl[j] # NoRef) =>
            /\ ChainSteps(ytdl[j]) =
                  <<dictHeap[FORMAT_POSTPROCESSORS[json[j].convert_to][2]]>> \o BaseChain
            /\ ChainSteps(ytdl[j])[1] = ConvertorStep(json[j].convert_to)
            /\ optsHeap[ytdl[j]].final_ext = FORMAT_POSTPROCESSORS[json[j].convert_to][1]

C2_Witness ==
    \E j \in Jobs :
        /\ Recognized(j) /\ json[j].convert_to = "vorbis"
        /\ ytdl[j] # NoRef
        /\ optsHeap[ytdl[j]].final_ext = "ogg"
        /\ Len(ChainIds(ytdl[j])) = 3

\* C3: when convert_to is absent or not a key of the table, no postprocessor
\* is selected, the options the engine is constructed with have the base
\* chain and no final_ext, and the request is not rejected: with a url the
\* engine is invoked and the response ends with the engine's outcome.
C3_UnrecognizedIsBase ==
    \A j \in Jobs :
        Unrecognized(j) =>
            /\ postprocessor[j] = None
            /\ pc[j] # "unhandled"
            /\ ytdl[j] # NoRef =>
                  /\ ChainSteps(ytdl[j]) = BaseChain
                  /\ optsHeap[ytdl[j]].final_ext = NoKey
            /\ (HasUrl(j) /\ Answered(j)) => engine[j] \in {"returned", "raised"}

C3_Witness ==
    \E j \in Jobs :
        /\ Unrecognized(j) /\ "convert_to" \in json[j].keys
        /\ HasUrl(j) /\ Answered(j)
        /\ ytdl[j] # NoRef
        /\ Terminals(j) # <<>> /\ Terminals(j)[1].kind = "Result"

\* C4: the module-level opts never changes (two base steps, no final_ext),
\* and the options of each job are a copy of its own whose chain holds the
\* base steps and at most the step its own request selected.
C4_BaseUnchanged ==
    /\ optsHeap[OptsId] = opts
    /\ listHeap[OptsListId] = <<ExtractAudioId, ConcatId>>
    /\ ChainSteps(OptsId) = BaseChain
    /\ \A j \in Jobs :
          opts_[j] # NoRef =>
              /\ opts_[j] # OptsId
              /\ optsHeap[opts_[j]].postprocessors # OptsListId
              /\ \A k \in Jobs \ {j} :
                    opts_[k] # NoRef =>
                        optsHeap[opts_[k]].postprocessors # optsHeap[opts_[j]].postprocessors
              /\ IF ytdl[j] # NoRef /\ postprocessor[j] # None
                 THEN /\ ChainSteps(opts_[j]) =
                            <<ConvertorStep(json[j].convert_to)>> \o BaseChain
                      /\ optsHeap[opts_[j]].final_ext = postprocessor[j][1]
                 ELSE /\ ChainSteps(opts_[j]) = BaseChain
                      /\ optsHeap[opts_[j]].final_ext = NoKey

C4_Witness ==
    \E j, k \in Jobs :
        /\ j # k
        /\ ytdl[j] # NoRef /\ ytdl[k] # NoRef
        /\ engine[j] = "running" /\ pc[k] = "call"
        /\ optsHeap[ytdl[j]].final_ext = "ogg"
        /\ optsHeap[ytdl[k]].final_ext = "mp3"
        /\ Len(ChainIds(OptsId)) = 2

\* C5: when the engine raises, the handler does not let the failure escape:
\* the response ends with exactly one Error event carrying the failure's
\* description, with a normal HTTP status.
C5_EngineFailureIsError ==
    \A j \in Jobs :
        engine[j] = "raised" =>
            /\ pc[j] = "done"
            /\ http[j] = 200
            /\ exc[j] \in EngineErrors
            /\ Len(Terminals(j)) = 1
            /\ Terminals(j)[1].kind = "Error"
            /\ Terminals(j)[1].text = exc[j].arg

C5_Witness ==
    \E j \in Jobs :
        /\ engine[j] = "raised" /\ Answered(j)
        /\ Terminals(j) = <<Error("ERROR: video unavailable")>>

\* C6 as stated: a request without url is rejected before anything is
\* built: no engine is constructed and no Error event is produced.
C6_RejectedBeforeJob ==
    \A j \in Jobs :
        NoUrl(j) =>
            /\ engine[j] = "none"
            /\ ytdl[j] = NoRef
            /\ \A i \in 1..Len(response[j]) : response[j][i].kind # "Error"

\* C6 amended: a request without url never gets the engine invoked; its
\* options are built and the engine is constructed, then the lookup of
\* "url" fails and the same handler that reports engine failures answers
\* with the string of the KeyError.
C6_NoUrlNeverInvokes ==
    \A j \in Jobs :
        NoUrl(j) =>
            /\ engine[j] \in {"none", "constructed"}
            /\ emitted[j] = <<>>
            /\ pc[j] \in {"copy", "build", "call", "done"}
            /\ pc[j] \in {"call", "done"} => engine[j] = "constructed"
            /\ Answered(j) => (response[j] = <<Error("'url'")>> /\ http[j] = 200)

C6_Witness ==
    \E j \in Jobs :
        /\ NoUrl(j) /\ Answered(j)
        /\ engine[j] = "constructed"
        /\ ytdl[j] # NoRef

\* C7 as stated: the handler never waits for the engine, which runs apart
\* from the handler.
C7_HandlerNeverBlocks ==
    \A j \in Jobs : engine[j] = "running" => pc[j] # "extracting"

\* C7 amended: the handler calls the engine in its own thread and waits in
\* the call: while the engine runs nothing has been answered, and once the
\* handler has answered the engine is no longer running.
C7_HandlerWaitsForEngine ==
    \A j \in Jobs :
        /\ engine[j] = "running" =>
              (pc[j] = "extracting" /\ http[j] = 0 /\ response[j] = <<>>)
        /\ Answered(j) => engine[j] # "running"

C7_Witness ==
    \E j, k \in Jobs :
        /\ Answered(j) /\ engine[j] = "returned"
        /\ engine[k] = "running" /\ http[k] = 0

\* C8 as stated: every progress notification of the engine reaches the
\* client as a Status event, in the order of production.
C8_ProgressDelivered ==
    \A j \in Jobs :
        Answered(j) =>
            [i \in 1..Len(Statuses(j)) |-> Statuses(j)[i].n] = emitted[j]

\* C8 amended: no progress hook is registered, so the client never
\* receives a Status event, whatever the engine reports; the response
\* holds the terminal event only.
C8_NoStatusDelivered ==
    \A j \in Jobs :
        /\ Statuses(j) = <<>>
        /\ Len(response[j]) <= 1
        /\ ytdl[j] # NoRef => progress_hooks(optsHeap[ytdl[j]]) = <<>>

C8_Witness ==
    \E j \in Jobs :
        /\ Answered(j)
        /\ emitted[j] # <<>>
        /\ Len(response[j]) = 1

\* C9: the chains of the options of different jobs, of the base
\* configuration and the steps of the table share no step object.
C9_NoSharedStep ==
    \A j \in Jobs :
        ytdl[j] # NoRef =>
            /\ IdSet(ytdl[j]) \cap (IdSet(OptsId) \cup TableIds) = {}
            /\ \A k \in Jobs \ {j} :
                  ytdl[k] # NoRef => IdSet(ytdl[j]) \cap IdSet(ytdl[k]) = {}

\* C10: the response ends with a Result carrying the engine's object
\* exactly when the engine returned, and with an Error exactly when it
\* raised.
C10_ResultIffEngineReturned ==
    \A j \in Jobs :
        (HasUrl(j) /\ Answered(j)) =>
            /\ engine[j] = "returned" <=>
                  (Terminals(j) # <<>> /\ Terminals(j)[1].kind = "Result")
            /\ engine[j] = "raised" <=>
                  (Terminals(j) # <<>> /\ Terminals(j)[1].kind = "Error")

=============================================================================
